---- MODULE Spec2Model ----
(***************************************************************************)
(* Model of the embedding / similarity-search path of backend-boti:       *)
(* the documents and vector_embeddings tables, the embedding provider     *)
(* client, and the request handlers that read and write them.  Every      *)
(* store operation and every provider call of a handler is one atomic     *)
(* step, so handlers of different requests interleave between them.       *)
(***************************************************************************)
EXTENDS Integers, Sequences, FiniteSets, TLC

----------------------------------------------------------------------------
(* Bounds of the model *)

\* number of document ids the store can hand out
MaxDocs == 2
\* cap on the rows of the vector_embeddings table
MaxEmbeddings == 2
\* cap on the number of requests served in one behaviour
MaxRequests == 4
\* cap on the rows the similarity backend returns to one call
MaxRows == 2
\* length of the vectors the provider returns (1536 for ada-002)
Dim == 2
\* cap on the number of texts of one get_embeddings call
MaxTexts == 2
\* number of user ids the store can hand out
MaxUsers == 2
\* number of conversations in the store
MaxConvs == 1
\* cap on the rows of the messages table
MaxMessages == 3
\* number of tools a permission can be for
MaxTools == 2
\* longest list of role names, required or held
MaxRoles == 2

----------------------------------------------------------------------------
(* Values *)

\* concurrent request handlers
Reqs == 1..2

DocIds == 1..MaxDocs
MsgIds == {1}
Texts == {"a", "b"}
\* documents are created with the first name and renamed to the second
Names == <<"n", "m">>

\* a field of an update model the client did not set
Unset == "<unset>"

\* Python values that reach the store as the vector field:
\* a list of floats, or a str
PyList(v) == [type |-> "list", value |-> v]
PyStr(s) == [type |-> "str", value |-> s]

\* floats are modelled in tenths: k stands for k/10
FloatRepr(k) == "0." \o ToString(k)

RECURSIVE JoinFloats(_)
JoinFloats(v) ==
    IF Len(v) = 0 THEN ""
    ELSE IF Len(v) = 1 THEN FloatRepr(v[1])
    ELSE FloatRepr(v[1]) \o ", " \o JoinFloats(Tail(v))

\* json.dumps of a list of floats: the text "[0.1, 0.2]"
JsonDumps(v) == PyStr("[" \o JoinFloats(v) \o "]")

\* the vector the provider computes for a text (a fixed function of the text)
ProviderVector(text) ==
    [i \in 1..Dim |-> IF text = "a" THEN i ELSE Dim + i]

\* the responses the provider can give to one request; `text` is the body
\* of an error response
ProviderResponses(text) ==
    { [kind |-> "response", status_code |-> 200, text |-> "",
       embedding |-> ProviderVector(text)],
      [kind |-> "response", status_code |-> 500, text |-> "server error",
       embedding |-> <<>>],
      [kind |-> "timeout", status_code |-> 0, text |-> "", embedding |-> <<>>] }

----------------------------------------------------------------------------
(* State *)

VARIABLES
    documents,          \* documents table: id -> row, for the ids that exist
    messages,           \* messages table: id -> row
    vector_embeddings,  \* vector_embeddings table: sequence of rows
    req,                \* the handler of each request slot
    started,            \* number of requests served so far
    usuarios,           \* usuarios table: id -> row, for the ids that exist
    conversations,      \* conversations table: id -> row
    permissions         \* permissions table: sequence of rows

vars == <<documents, messages, vector_embeddings, req, started,
          usuarios, conversations, permissions>>

\* the tables of the user, conversation and permission endpoints
other_tables == <<usuarios, conversations, permissions>>

NoResult == [status |-> 0, detail |-> ""]

IdleReq ==
    [op |-> "none", pc |-> "idle", id |-> 0,
     obj_in |-> [name |-> Unset, text_content |-> Unset],
     db_obj |-> <<>>, text |-> "", vector |-> <<>>, limit |-> 0,
     log |-> <<>>, result |-> NoResult, results |-> <<>>,
     texts |-> <<>>, embeddings |-> <<>>, api_key |-> "",
     out |-> [raised |-> FALSE, error |-> "", value |-> <<>>]]

----------------------------------------------------------------------------
(* Log events of a handler: its provider calls and store operations *)

EmbedEvent(text, response) ==
    [kind |-> "embed", text |-> text, response |-> response]
SelectEvent(table, column, id) ==
    [kind |-> "select", table |-> table, column |-> column, id |-> id]
InsertEvent(table, payload) ==
    [kind |-> "insert", table |-> table, payload |-> payload]
UpdateEvent(table, id, payload) ==
    [kind |-> "update", table |-> table, id |-> id, payload |-> payload]
RpcEvent(name, params, response) ==
    [kind |-> "rpc", name |-> name, params |-> params, response |-> response]

Events(log, kind) == {i \in DOMAIN log : log[i].kind = kind}
Count(log, kind) == Cardinality(Events(log, kind))
Writes(log) == Events(log, "insert") \cup Events(log, "update")

\* the provider call of an embed event failed: API error or timeout
Failed(event) ==
    event.response.kind = "timeout" \/ event.response.status_code # 200

----------------------------------------------------------------------------
(* Embedding provider client: EmbeddingService.get_embedding *)

Raise(error) == [raised |-> TRUE, error |-> error, value |-> <<>>]
Return(value) == [raised |-> FALSE, error |-> "", value |-> value]

\* get_embedding without its status check: a failed call yields a value
get_embedding_unchecked(response) == Return(response.embedding)

\* the error raised for a status other than 200 leaves the body out
get_embedding_without_body(response) ==
    IF response.kind = "timeout" THEN Raise("TransportError")
    ELSE IF response.status_code # 200 THEN Raise("Error getting embedding")
    ELSE Return(response.embedding)

\* One outbound POST; a timeout or connection failure propagates out of
\* client.post, a status other than 200 raises, otherwise the embedding of
\* the first data item is returned.
get_embedding(response) ==
    IF response.kind = "timeout" THEN Raise("TransportError")
    ELSE IF response.status_code # 200
         THEN Raise("Error getting embedding: " \o response.text)
    ELSE Return(response.embedding)

----------------------------------------------------------------------------
(* Models and payloads *)

\* obj_in.model_dump(): every field of the create model
\* (agent_id and tool_id are carried exactly like name and are left out)
model_dump(obj_in) == obj_in

\* model_dump without exclude_unset: unset fields are dumped too
model_dump_with_unset(obj_in) == obj_in

\* obj_in.model_dump(exclude_unset=True): only the fields the client set
model_dump_exclude_unset(obj_in) ==
    [f \in {k \in DOMAIN obj_in : obj_in[k] # Unset} |-> obj_in[f]]

\* the vector is never added to the payload
WithVector_dropped(obj_dict, vector) == obj_dict

\* obj_dict["vector"] = vector
WithVector(obj_dict, vector) ==
    [f \in DOMAIN obj_dict \cup {"vector"} |->
        IF f = "vector" THEN PyList(vector) ELSE obj_dict[f]]

\* CRUDDocument.update_with_vector: `if "text_content" in update_data`
NeedsEmbedding(update_data) == "text_content" \in DOMAIN update_data

\* the stored text is embedded instead of the new one
TextToEmbed_stored(update_data, db_obj) == db_obj.text_content

\* CRUDDocument.update_with_vector: the text handed to get_embedding
TextToEmbed(update_data, db_obj) == update_data["text_content"]

\* VectorEmbeddingCreate(message_id=...) / (document_id=...); 0 stands for None
VectorEmbeddingCreate(message_id, document_id) ==
    [message_id |-> message_id, document_id |-> document_id, agent_id |-> 0]

----------------------------------------------------------------------------
(* Store operations (the supabase client) *)

\* table(...).select("*").eq("id", id).execute().data
SelectById(table, id) == IF id \in DOMAIN table THEN <<table[id]>> ELSE <<>>

\* CRUDBase.get: the first row of the response, or None (the empty sequence)
Get(table, id) ==
    LET data == SelectById(table, id)
    IN  IF Len(data) > 0 THEN <<data[1]>> ELSE <<>>

\* the id the store gives a new document (uuid4: never one in use)
NewDocId(table) == CHOOSE id \in DocIds \ DOMAIN table :
                        \A other \in DocIds \ DOMAIN table : id <= other

\* table("documents").insert(obj_dict).execute()
InsertDocument(table, obj_dict) ==
    LET id == NewDocId(table)
        row == [f \in DOMAIN obj_dict \cup {"id"} |->
                    IF f = "id" THEN id ELSE obj_dict[f]]
    IN  [f \in DOMAIN table \cup {id} |-> IF f = id THEN row ELSE table[f]]

\* table("documents").update(update_data).eq("id", id).execute()
UpdateDocument(table, id, update_data) ==
    [d \in DOMAIN table |->
        IF d = id
        THEN [f \in DOMAIN table[d] |->
                IF f \in DOMAIN update_data THEN update_data[f] ELSE table[d][f]]
        ELSE table[d]]

\* table("vector_embeddings").insert(obj_dict).execute()
InsertEmbedding(table, obj_dict) == Append(table, obj_dict)

IsFor(row, column, id) == row[column] = id

\* CRUDVectorEmbedding.get_by_message / get_by_document:
\* select("*").eq(column, id), then the first row or None
GetByOwner(table, column, id) ==
    LET data == SelectSeq(table, LAMBDA row : IsFor(row, column, id))
    IN  IF Len(data) > 0 THEN <<data[1]>> ELSE <<>>

\* the existence check never fires
NotFound_never(db_obj) == FALSE

\* the endpoints' `if not message` / `if not document`
NotFound(db_obj) == Len(db_obj) = 0

\* the duplicate check never fires
AlreadyExists_never(existing) == FALSE

\* create_for_message / create_for_document: `if existing`
AlreadyExists(existing) == Len(existing) > 0

HTTP(status, detail) == [status |-> status, detail |-> detail]

----------------------------------------------------------------------------
(* Request handlers.  A request takes a free slot; its first step is the  *)
(* handler's first store operation or provider call.                      *)

\* Slots are interchangeable: a request takes the first free one.
Free(r) ==
    /\ req[r].pc \in {"idle", "done"}
    /\ started < MaxRequests
    /\ \A other \in Reqs : req[other].pc \in {"idle", "done"} => r <= other

Set(r, rec) == req' = [req EXCEPT ![r] = rec]

Finish(rq, result) == [rq EXCEPT !.pc = "done", !.result = result]

\* the handler awaits get_embedding(text) and the provider answers `response`
AwaitEmbedding(rq, text, response, next) ==
    LET out == get_embedding(response)
        logged == [rq EXCEPT !.log = Append(@, EmbedEvent(text, response))]
    IN  IF out.raised
        THEN Finish(logged, HTTP(500, out.error))
        ELSE [logged EXCEPT !.pc = next, !.vector = out.value]

(* POST /documents/ : create_document -> CRUDDocument.create_with_vector *)

CreateDocument_Embed(r, obj_in, response) ==
    /\ Free(r)
    /\ started' = started + 1
    /\ Set(r, AwaitEmbedding(
                [IdleReq EXCEPT !.op = "create_document", !.obj_in = obj_in,
                                !.text = obj_in.text_content],
                obj_in.text_content, response, "insert"))
    /\ UNCHANGED <<other_tables, documents, messages, vector_embeddings>>

CreateDocument_Insert(r) ==
    /\ req[r].op = "create_document" /\ req[r].pc = "insert"
    /\ DOMAIN documents # DocIds
    /\ LET obj_dict == WithVector(model_dump(req[r].obj_in), req[r].vector)
       IN  /\ documents' = InsertDocument(documents, obj_dict)
           /\ Set(r, Finish([req[r] EXCEPT
                                !.id = NewDocId(documents),
                                !.log = Append(@, InsertEvent("documents", obj_dict))],
                            HTTP(200, "")))
    /\ UNCHANGED <<other_tables, messages, vector_embeddings, started>>

(* PUT /documents/{id} : update_document -> CRUDDocument.update_with_vector *)

UpdateDocument_Get(r, id, obj_in) ==
    /\ Free(r)
    /\ started' = started + 1
    /\ LET db_obj == Get(documents, id)
           rq == [IdleReq EXCEPT !.op = "update_document", !.id = id,
                                 !.obj_in = obj_in, !.db_obj = db_obj,
                                 !.log = <<SelectEvent("documents", "id", id)>>]
       IN  Set(r, IF NotFound(db_obj)
                  THEN Finish(rq, HTTP(404, "Document not found"))
                  ELSE [rq EXCEPT !.pc =
                          IF NeedsEmbedding(model_dump_exclude_unset(obj_in))
                          THEN "embed" ELSE "update"])
    /\ UNCHANGED <<other_tables, documents, messages, vector_embeddings>>

UpdateDocument_Embed(r, response) ==
    /\ req[r].op = "update_document" /\ req[r].pc = "embed"
    /\ LET text == TextToEmbed(model_dump_exclude_unset(req[r].obj_in),
                               req[r].db_obj[1])
       IN  /\ response \in ProviderResponses(text)
           /\ Set(r, AwaitEmbedding([req[r] EXCEPT !.text = text],
                                    text, response, "update"))
    /\ UNCHANGED <<other_tables, documents, messages, vector_embeddings, started>>

UpdateDocument_Update(r) ==
    /\ req[r].op = "update_document" /\ req[r].pc = "update"
    /\ LET dumped == model_dump_exclude_unset(req[r].obj_in)
           update_data == IF NeedsEmbedding(dumped)
                          THEN WithVector(dumped, req[r].vector)
                          ELSE dumped
           id == req[r].db_obj[1].id
           logged == [req[r] EXCEPT
                        !.log = Append(@, UpdateEvent("documents", id, update_data))]
       IN  /\ documents' = UpdateDocument(documents, id, update_data)
           \* Document(**response.data[0]): no row came back if the id is gone
           /\ Set(r, IF id \in DOMAIN documents
                     THEN Finish(logged, HTTP(200, ""))
                     ELSE Finish(logged, HTTP(500, "IndexError")))
    /\ UNCHANGED <<other_tables, messages, vector_embeddings, started>>

(* POST /vector-embeddings/message/{id} and /document/{id} *)

CreateForMessage_Get(r, message_id) ==
    /\ Free(r)
    /\ started' = started + 1
    /\ LET message == Get(messages, message_id)
           rq == [IdleReq EXCEPT !.op = "create_for_message", !.id = message_id,
                                 !.db_obj = message,
                                 !.log = <<SelectEvent("messages", "id", message_id)>>]
       IN  Set(r, IF NotFound(message)
                  THEN Finish(rq, HTTP(404, "Message not found"))
                  ELSE [rq EXCEPT !.pc = "check_existing"])
    /\ UNCHANGED <<other_tables, documents, messages, vector_embeddings>>

CreateForMessage_CheckExisting(r) ==
    /\ req[r].op = "create_for_message" /\ req[r].pc = "check_existing"
    /\ LET existing == GetByOwner(vector_embeddings, "message_id", req[r].id)
           rq == [req[r] EXCEPT !.log = Append(@,
                     SelectEvent("vector_embeddings", "message_id", req[r].id))]
       IN  Set(r, IF AlreadyExists(existing)
                  THEN Finish(rq, HTTP(400,
                         "Vector embedding already exists for this message"))
                  ELSE [rq EXCEPT !.pc = "embed",
                                  !.text = req[r].db_obj[1].content])
    /\ UNCHANGED <<other_tables, documents, messages, vector_embeddings, started>>

CreateForDocument_Get(r, document_id) ==
    /\ Free(r)
    /\ started' = started + 1
    /\ LET document == Get(documents, document_id)
           rq == [IdleReq EXCEPT !.op = "create_for_document", !.id = document_id,
                                 !.db_obj = document,
                                 !.log = <<SelectEvent("documents", "id", document_id)>>]
       IN  Set(r, IF NotFound(document)
                  THEN Finish(rq, HTTP(404, "Document not found"))
                  ELSE [rq EXCEPT !.pc = "check_existing"])
    /\ UNCHANGED <<other_tables, documents, messages, vector_embeddings>>

CreateForDocument_CheckExisting(r) ==
    /\ req[r].op = "create_for_document" /\ req[r].pc = "check_existing"
    /\ LET existing == GetByOwner(vector_embeddings, "document_id", req[r].id)
           rq == [req[r] EXCEPT !.log = Append(@,
                     SelectEvent("vector_embeddings", "document_id", req[r].id))]
       IN  Set(r, IF AlreadyExists(existing)
                  THEN Finish(rq, HTTP(400,
                         "Vector embedding already exists for this document"))
                  ELSE [rq EXCEPT !.pc = "embed",
                                  !.text = req[r].db_obj[1].text_content])
    /\ UNCHANGED <<other_tables, documents, messages, vector_embeddings, started>>

(* CRUDVectorEmbedding.create_for_text, called by both endpoints *)

CreateForText_Embed(r, response) ==
    /\ req[r].op \in {"create_for_message", "create_for_document"}
    /\ req[r].pc = "embed"
    /\ response \in ProviderResponses(req[r].text)
    /\ Set(r, AwaitEmbedding(req[r], req[r].text, response, "insert"))
    /\ UNCHANGED <<other_tables, documents, messages, vector_embeddings, started>>

CreateForText_Insert(r) ==
    /\ req[r].op \in {"create_for_message", "create_for_document"}
    /\ req[r].pc = "insert"
    /\ Len(vector_embeddings) < MaxEmbeddings
    /\ LET obj_in == IF req[r].op = "create_for_message"
                     THEN VectorEmbeddingCreate(req[r].id, 0)
                     ELSE VectorEmbeddingCreate(0, req[r].id)
           obj_dict == WithVector(model_dump(obj_in), req[r].vector)
       IN  /\ vector_embeddings' = InsertEmbedding(vector_embeddings, obj_dict)
           /\ Set(r, Finish([req[r] EXCEPT !.log =
                                Append(@, InsertEvent("vector_embeddings", obj_dict))],
                            HTTP(200, "")))
    /\ UNCHANGED <<other_tables, documents, messages, started>>

----------------------------------------------------------------------------
(* Specification of the embedding lifecycle *)

DocumentCreates == [name : {Names[1]}, text_content : Texts]
DocumentUpdates == [name : {Names[2], Unset}, text_content : Texts \cup {Unset}]

\* The messages table is written by the conversation endpoints, which this
\* specification leaves out: the table starts with one message they created.
Init ==
    /\ documents = <<>>
    /\ messages = [m \in MsgIds |-> [id |-> m, content |-> "a"]]
    /\ vector_embeddings = <<>>
    /\ req = [r \in Reqs |-> IdleReq]
    /\ started = 0
    /\ usuarios = <<>>
    /\ conversations = <<>>
    /\ permissions = <<>>

Next ==
    \E r \in Reqs :
        \/ \E obj_in \in DocumentCreates :
             \E response \in ProviderResponses(obj_in.text_content) :
                CreateDocument_Embed(r, obj_in, response)
        \/ CreateDocument_Insert(r)
        \/ \E id \in DocIds, obj_in \in DocumentUpdates :
                UpdateDocument_Get(r, id, obj_in)
        \/ \E response \in UNION {ProviderResponses(t) : t \in Texts} :
                UpdateDocument_Embed(r, response)
        \/ UpdateDocument_Update(r)
        \/ \E id \in MsgIds \cup {2} : CreateForMessage_Get(r, id)
        \/ CreateForMessage_CheckExisting(r)
        \/ \E id \in DocIds : CreateForDocument_Get(r, id)
        \/ CreateForDocument_CheckExisting(r)
        \/ \E response \in UNION {ProviderResponses(t) : t \in Texts} :
                CreateForText_Embed(r, response)
        \/ CreateForText_Insert(r)

Spec == Init /\ [][Next]_vars

----------------------------------------------------------------------------
(* Similarity search: CRUDDocument.search_by_vector and                   *)
(* CRUDVectorEmbedding.search_similar behind POST /documents/search and   *)
(* POST /vector-embeddings/search                                         *)

\* "match_threshold": 0.5, in hundredths
MatchThreshold == 50

\* similarity scores, in hundredths
Scores == {40, 85, 95}

Limits == {1, 2}

\* an element of response.data that is not a JSON object: item.items()
\* raises AttributeError
NotAnObject == [json |-> "null"]

IsObject(item) == item # NotAnObject

\* an element of the backend's answer: a row with the entity's fields and,
\* normally, its similarity, or an element that is no row
RpcRows ==
    [id : 1..2, similarity : Scores] \cup [id : 1..2] \cup {NotAnObject}

RECURSIVE SeqsUpTo(_, _)
SeqsUpTo(S, n) ==
    IF n = 0 THEN {<<>>}
    ELSE LET shorter == SeqsUpTo(S, n - 1)
         IN  shorter \cup {Append(q, x) : q \in shorter, x \in S}

\* what rpc(...).execute() can do: raise, or answer with rows.  The matching
\* procedure runs in the database, outside this code: any rows can come back.
RpcResponses ==
    {[raised |-> TRUE, data |-> <<>>]}
        \cup {[raised |-> FALSE, data |-> rows] : rows \in SeqsUpTo(RpcRows, MaxRows)}

RpcName(op) ==
    IF op = "search_documents" THEN "match_documents"
    ELSE "match_vector_embeddings"

\* the parameters of the rpc call
RpcParams(query_vector, limit) ==
    [query_embedding |-> JsonDumps(query_vector),
     match_threshold |-> MatchThreshold,
     match_count |-> limit]

\* the similarity stays among the entity's fields
ConvertRow_keeps_similarity(item) ==
    [entity |-> item,
     score |-> IF "similarity" \in DOMAIN item THEN item["similarity"] ELSE 0]

\* {k: v for k, v in item.items() if k != "similarity"} and
\* item.get("similarity", 0.0): the entity and its score
ConvertRow(item) ==
    [entity |-> [k \in DOMAIN item \ {"similarity"} |-> item[k]],
     score |-> IF "similarity" \in DOMAIN item THEN item["similarity"] ELSE 0]

\* the loop over response.data
ConvertRows(data) == [i \in DOMAIN data |-> ConvertRow(data[i])]

\* the except branch re-raises instead of returning []
OnSearchError_reraise(error) == Raise(error)

\* `except Exception as e: ... return []`
OnSearchError(error) == Return(<<>>)

\* the elements of response.data whose conversion raises
FailedRows(data) == {i \in DOMAIN data : ~IsObject(data[i])}

\* the rows converted before the first failure are returned
SearchTry_partial(response) ==
    IF response.raised THEN OnSearchError("RpcError")
    ELSE IF FailedRows(response.data) # {}
    THEN LET first == CHOOSE i \in FailedRows(response.data) :
                        \A j \in FailedRows(response.data) : i <= j
         IN  Return(ConvertRows(SubSeq(response.data, 1, first - 1)))
    ELSE Return(ConvertRows(response.data))

\* the try block: the rpc call and the conversion of its rows; `results` is
\* returned only after the loop, and an error in the loop reaches the same
\* except branch as an error of the call
SearchTry(response) ==
    IF response.raised THEN OnSearchError("RpcError")
    ELSE IF FailedRows(response.data) # {} THEN OnSearchError("AttributeError")
    ELSE Return(ConvertRows(response.data))

\* the provider call sits inside the try block: its error yields []
SearchEmbedError_caught(error) == Return(<<>>)

\* `query_vector = await embedding_service.get_embedding(query_text)` stands
\* before the try block: its error leaves the function
SearchEmbedError(error) == Raise(error)

Search_Embed(r, op, query_text, limit, response) ==
    /\ Free(r)
    /\ started' = started + 1
    /\ op \in {"search_documents", "search_vector_embeddings"}
    /\ response \in ProviderResponses(query_text)
    /\ LET out == get_embedding(response)
           rq == [IdleReq EXCEPT !.op = op, !.text = query_text,
                                 !.limit = limit,
                                 !.log = <<EmbedEvent(query_text, response)>>]
           handled == SearchEmbedError(out.error)
       IN  Set(r, IF ~out.raised
                  THEN [rq EXCEPT !.pc = "rpc", !.vector = out.value]
                  ELSE IF handled.raised
                  THEN Finish(rq, HTTP(500, handled.error))
                  ELSE Finish([rq EXCEPT !.results = handled.value],
                              HTTP(200, "")))
    /\ UNCHANGED <<other_tables, documents, messages, vector_embeddings>>

Search_Rpc(r, response) ==
    /\ req[r].op \in {"search_documents", "search_vector_embeddings"}
    /\ req[r].pc = "rpc"
    /\ LET params == RpcParams(req[r].vector, req[r].limit)
           out == SearchTry(response)
           logged == [req[r] EXCEPT !.log =
                        Append(@, RpcEvent(RpcName(req[r].op), params, response))]
       IN  Set(r, IF out.raised
                  THEN Finish(logged, HTTP(500, out.error))
                  ELSE Finish([logged EXCEPT !.results = out.value], HTTP(200, "")))
    /\ UNCHANGED <<other_tables, documents, messages, vector_embeddings, started>>

\* Searches write nothing, so one handler at a time shows all they can do.
SearchReqs == {1}

NextSearch ==
    \E r \in SearchReqs :
        \/ \E op \in {"search_documents", "search_vector_embeddings"},
              query_text \in Texts, limit \in Limits :
             \E response \in ProviderResponses(query_text) :
                Search_Embed(r, op, query_text, limit, response)
        \/ \E response \in RpcResponses : Search_Rpc(r, response)

SpecSearch == Init /\ [][NextSearch]_vars

----------------------------------------------------------------------------
(* EmbeddingService: construction and the batch call get_embeddings *)

\* os.environ has no OPENAI_API_KEY entry
NotInEnviron == "<not in environ>"

ApiKeyArgs == {"", "arg_key"}
EnvironValues == {NotInEnviron, "", "env_key"}
SettingsValues == {"", "settings_key"}

\* Python's `a or b` on strings
PyOr(a, b) == IF a # "" THEN a ELSE b

\* os.environ.get("OPENAI_API_KEY", default)
environ_get(environ, default) ==
    IF environ = NotInEnviron THEN default ELSE environ

\* the settings value is taken before the environment variable
resolve_api_key_settings_first(api_key, environ, settings_key) ==
    PyOr(api_key, PyOr(settings_key, environ_get(environ, "")))

\* api_key or os.environ.get("OPENAI_API_KEY", settings.OPENAI_API_KEY)
\* (api_key None and api_key "" are both falsy and modelled as "")
resolve_api_key(api_key, environ, settings_key) ==
    PyOr(api_key, environ_get(environ, settings_key))

\* EmbeddingService.__init__
EmbeddingService_init(api_key, environ, settings_key) ==
    LET key == resolve_api_key(api_key, environ, settings_key)
    IN  IF key = "" THEN Raise("ValueError: OpenAI API key is required")
        ELSE Return(key)

Construct(r, api_key, environ, settings_key) ==
    /\ Free(r)
    /\ started' = started + 1
    /\ LET out == EmbeddingService_init(api_key, environ, settings_key)
           rq == [IdleReq EXCEPT !.op = "EmbeddingService",
                    !.obj_in = [api_key |-> api_key, environ |-> environ,
                                settings_key |-> settings_key]]
       IN  Set(r, IF out.raised
                  THEN Finish(rq, HTTP(500, out.error))
                  ELSE Finish([rq EXCEPT !.api_key = out.value], HTTP(200, "")))
    /\ UNCHANGED <<other_tables, documents, messages, vector_embeddings>>

\* an error response with another status and body
ErrorResponses ==
    { [kind |-> "response", status_code |-> 429, text |-> "rate limit",
       embedding |-> <<>>] }

ServiceResponses(text) == ProviderResponses(text) \cup ErrorResponses

\* the vector is put at the front of the list
AppendEmbedding_front(embeddings, embedding) == <<embedding>> \o embeddings

\* embeddings.append(embedding)
AppendEmbedding(embeddings, embedding) == Append(embeddings, embedding)

\* get_embeddings(texts): `embeddings = []`, and `return embeddings` at once
\* when texts is empty
GetEmbeddings_Call(r, texts) ==
    /\ Free(r)
    /\ started' = started + 1
    /\ LET rq == [IdleReq EXCEPT !.op = "get_embeddings", !.texts = texts]
       IN  Set(r, IF Len(texts) = 0
                  THEN Finish(rq, HTTP(200, ""))
                  ELSE [rq EXCEPT !.pc = "embed"])
    /\ UNCHANGED <<other_tables, documents, messages, vector_embeddings>>

\* one round of the loop: await get_embedding(text), append; after the last
\* text, return the list
GetEmbeddings_Embed(r, response) ==
    /\ req[r].op = "get_embeddings" /\ req[r].pc = "embed"
    /\ LET text == req[r].texts[Len(req[r].embeddings) + 1]
           out == get_embedding(response)
           logged == [req[r] EXCEPT !.log = Append(@, EmbedEvent(text, response))]
           embeddings == AppendEmbedding(req[r].embeddings, out.value)
       IN  /\ response \in ServiceResponses(text)
           /\ Set(r, IF out.raised
                     THEN Finish(logged, HTTP(500, out.error))
                     ELSE IF Len(embeddings) = Len(req[r].texts)
                     THEN Finish([logged EXCEPT !.embeddings = embeddings,
                                                !.results = embeddings],
                                 HTTP(200, ""))
                     ELSE [logged EXCEPT !.embeddings = embeddings])
    /\ UNCHANGED <<other_tables, documents, messages, vector_embeddings, started>>

\* The service touches no table, so one caller at a time shows all it can do.
ServiceReqs == {1}

NextService ==
    \E r \in ServiceReqs :
        \/ \E api_key \in ApiKeyArgs, environ \in EnvironValues,
              settings_key \in SettingsValues :
                Construct(r, api_key, environ, settings_key)
        \/ \E texts \in SeqsUpTo(Texts, MaxTexts) : GetEmbeddings_Call(r, texts)
        \/ \E response \in UNION {ServiceResponses(t) : t \in Texts} :
                GetEmbeddings_Embed(r, response)

SpecService == Init /\ [][NextService]_vars

----------------------------------------------------------------------------
(* A provider whose vectors have another length.  get_embedding returns    *)
(* result["data"][0]["embedding"] as it is, whatever its length.           *)

\* a 200 response whose embedding is one float short
WrongLengthResponses(text) ==
    { [kind |-> "response", status_code |-> 200, text |-> "",
       embedding |-> SubSeq(ProviderVector(text), 1, Dim - 1)] }

AnyProviderResponses(text) ==
    ProviderResponses(text) \cup WrongLengthResponses(text)

NextDim ==
    \E r \in Reqs :
        \/ \E obj_in \in DocumentCreates :
             \E response \in AnyProviderResponses(obj_in.text_content) :
                CreateDocument_Embed(r, obj_in, response)
        \/ CreateDocument_Insert(r)

SpecDim == Init /\ [][NextDim]_vars

----------------------------------------------------------------------------
(* Updates and deletes of stored documents: CRUDBase.update and            *)
(* CRUDBase.remove behind PUT and DELETE /documents/{id}                   *)

DeleteEvent(table, id, data) ==
    [kind |-> "delete", table |-> table, id |-> id, data |-> data]

\* table("documents").delete().eq("id", id).execute(): the rows left
DeleteDocument(table, id) == [d \in DOMAIN table \ {id} |-> table[d]]

\* CRUDBase.remove: the deleted row, or None (the empty sequence) when the
\* response holds no row
remove(table, id) ==
    LET data == SelectById(table, id)
    IN  IF Len(data) > 0 THEN Return(<<data[1]>>) ELSE Return(<<>>)

(* DELETE /documents/{id} : delete_document -> CRUDBase.remove *)

DeleteDocument_Get(r, id) ==
    /\ Free(r)
    /\ started' = started + 1
    /\ LET db_obj == Get(documents, id)
           rq == [IdleReq EXCEPT !.op = "delete_document", !.id = id,
                                 !.db_obj = db_obj,
                                 !.log = <<SelectEvent("documents", "id", id)>>]
       IN  Set(r, IF NotFound(db_obj)
                  THEN Finish(rq, HTTP(404, "Document not found"))
                  ELSE [rq EXCEPT !.pc = "remove"])
    /\ UNCHANGED <<other_tables, documents, messages, vector_embeddings>>

\* The handler returns what remove returned; a None return does not fit the
\* response model DocumentRead and the request ends with a server error.
DeleteDocument_Remove(r) ==
    /\ req[r].op = "delete_document" /\ req[r].pc = "remove"
    /\ LET id == req[r].id
           out == remove(documents, id)
           logged == [req[r] EXCEPT
                        !.log = Append(@, DeleteEvent("documents", id, out.value)),
                        !.db_obj = out.value]
       IN  /\ documents' = DeleteDocument(documents, id)
           /\ Set(r, IF Len(out.value) > 0
                     THEN Finish(logged, HTTP(200, ""))
                     ELSE Finish(logged, HTTP(500, "ResponseValidationError")))
    /\ UNCHANGED <<other_tables, messages, vector_embeddings, started>>

\* the documents table after two documents were created
InitStore ==
    /\ documents = [d \in DocIds |->
                        [id |-> d, name |-> Names[1], text_content |-> "a",
                         vector |-> PyList(ProviderVector("a"))]]
    /\ messages = [m \in MsgIds |-> [id |-> m, content |-> "a"]]
    /\ vector_embeddings = <<>>
    /\ req = [r \in Reqs |-> IdleReq]
    /\ started = 0
    /\ usuarios = <<>>
    /\ conversations = <<>>
    /\ permissions = <<>>

NextStore ==
    \E r \in Reqs :
        \/ \E id \in DocIds, obj_in \in DocumentUpdates :
                UpdateDocument_Get(r, id, obj_in)
        \/ \E response \in UNION {ProviderResponses(t) : t \in Texts} :
                UpdateDocument_Embed(r, response)
        \/ UpdateDocument_Update(r)
        \/ \E id \in DocIds : DeleteDocument_Get(r, id)
        \/ DeleteDocument_Remove(r)

SpecStore == InitStore /\ [][NextStore]_vars

----------------------------------------------------------------------------
(* Store operations when the database cannot be reached: execute() raises  *)
(* httpx.ConnectError.  The methods of CRUDBase catch it; the owner        *)
(* lookups and the vector writes have no try block.                        *)

BaseOps == {"get", "get_multi", "count", "create", "update", "remove"}
OwnerOps == {"get_by_message", "get_by_document", "get_by_agent"}
VectorWriteOps == {"create_with_vector", "update_with_vector", "create_for_text"}

ExecuteEvent(op, connected) ==
    [kind |-> "execute", op |-> op, connected |-> connected]

\* the column an owner lookup filters on
LookupColumn(op) ==
    IF op = "get_by_message" THEN "message_id"
    ELSE IF op = "get_by_document" THEN "document_id"
    ELSE "agent_id"

\* the vector column of a row inserted without a vector
PyNone == [type |-> "none", value |-> <<>>]

\* the connection error is swallowed and None returned
OnConnectError_none(error) == Return(<<>>)

\* `except httpx.ConnectError as e:
\*      raise ValueError(f"Database connection error: {str(e)}")`
OnConnectError(error) == Raise("ValueError: Database connection error: " \o error)

\* the body of a CRUDBase method on the documents table, the store answering
CRUDBaseBody(op, table, id) ==
    IF op = "get" THEN Return(Get(table, id))
    ELSE IF op = "get_multi"
         THEN Return([i \in 1..Cardinality(DOMAIN table) |->
                        table[CHOOSE d \in DOMAIN table :
                                Cardinality({e \in DOMAIN table : e <= d}) = i]])
    ELSE IF op = "count" THEN Return(<<[count |-> Cardinality(DOMAIN table)]>>)
    ELSE IF op = "create" THEN Return(<<InsertDocument(table,
                [name |-> Names[1], text_content |-> "a",
                 vector |-> PyNone])[NewDocId(table)]>>)
    ELSE IF op = "update"
         THEN IF id \in DOMAIN table
              THEN Return(<<UpdateDocument(table, id, [name |-> Names[2]])[id]>>)
              ELSE Raise("IndexError")
    ELSE remove(table, id)

\* the documents table after the method's store operation
CRUDBaseTable(op, table, id) ==
    IF op = "create"
    THEN InsertDocument(table, [name |-> Names[1], text_content |-> "a",
                                vector |-> PyNone])
    ELSE IF op = "update" THEN UpdateDocument(table, id, [name |-> Names[2]])
    ELSE IF op = "remove" THEN DeleteDocument(table, id)
    ELSE table

\* a method of CRUDBase: try / except httpx.ConnectError / except Exception
CRUDBaseCall(r, op, id, connected) ==
    /\ Free(r)
    /\ started' = started + 1
    /\ op \in BaseOps
    /\ op = "create" => DOMAIN documents # DocIds
    /\ LET rq == [IdleReq EXCEPT !.op = op, !.id = id,
                                 !.log = <<ExecuteEvent(op, connected)>>]
           out == IF connected THEN CRUDBaseBody(op, documents, id)
                  ELSE OnConnectError("ConnectError")
       IN  /\ Set(r, Finish([rq EXCEPT !.out = out],
                            IF out.raised THEN HTTP(500, out.error)
                            ELSE HTTP(200, "")))
           /\ documents' = IF connected THEN CRUDBaseTable(op, documents, id)
                           ELSE documents
    /\ UNCHANGED <<other_tables, messages, vector_embeddings>>

\* get_by_message / get_by_document / get_by_agent: no try block
OwnerLookup(r, op, id, connected) ==
    /\ Free(r)
    /\ started' = started + 1
    /\ op \in OwnerOps
    /\ LET rq == [IdleReq EXCEPT !.op = op, !.id = id,
                                 !.log = <<ExecuteEvent(op, connected)>>]
           rows == SelectSeq(vector_embeddings,
                             LAMBDA row : IsFor(row, LookupColumn(op), id))
           out == IF ~connected THEN Raise("ConnectError")
                  ELSE IF op = "get_by_agent" THEN Return(rows)
                  ELSE Return(GetByOwner(vector_embeddings, LookupColumn(op), id))
       IN  Set(r, Finish([rq EXCEPT !.out = out],
                         IF out.raised THEN HTTP(500, out.error)
                         ELSE HTTP(200, "")))
    /\ UNCHANGED <<other_tables, documents, messages, vector_embeddings>>

\* create_with_vector / update_with_vector / create_for_text: the provider
\* call, which here succeeds or fails as anywhere else
VectorWrite_Embed(r, op, id, response) ==
    /\ Free(r)
    /\ started' = started + 1
    /\ op \in VectorWriteOps
    /\ op = "update_with_vector" => id \in DOMAIN documents
    /\ response \in ProviderResponses("b")
    /\ LET rq == [IdleReq EXCEPT !.op = op, !.id = id, !.text = "b",
                    !.db_obj = Get(documents, id)]
           next == AwaitEmbedding(rq, "b", response, "execute")
       IN  Set(r, IF next.pc = "done"
                  THEN [next EXCEPT !.out = Raise(next.result.detail)]
                  ELSE next)
    /\ UNCHANGED <<other_tables, documents, messages, vector_embeddings>>

\* ... and their store write, with no try block around it
VectorWrite_Execute(r, connected) ==
    /\ req[r].op \in VectorWriteOps /\ req[r].pc = "execute"
    /\ req[r].op = "create_with_vector" => DOMAIN documents # DocIds
    /\ req[r].op = "create_for_text" => Len(vector_embeddings) < MaxEmbeddings
    /\ LET op == req[r].op
           id == req[r].id
           logged == [req[r] EXCEPT !.log = Append(@, ExecuteEvent(op, connected))]
           doc == WithVector([name |-> Names[1], text_content |-> "b"],
                             req[r].vector)
           upd == WithVector([text_content |-> "b"], req[r].vector)
           emb == WithVector(model_dump(VectorEmbeddingCreate(0, id)),
                             req[r].vector)
           out == IF ~connected THEN Raise("ConnectError")
                  ELSE IF op = "create_with_vector"
                       THEN Return(<<InsertDocument(documents, doc)[NewDocId(documents)]>>)
                  ELSE IF op = "update_with_vector"
                       THEN IF id \in DOMAIN documents
                            THEN Return(<<UpdateDocument(documents, id, upd)[id]>>)
                            ELSE Raise("IndexError")
                  ELSE Return(<<emb>>)
       IN  /\ Set(r, Finish([logged EXCEPT !.out = out],
                            IF out.raised THEN HTTP(500, out.error)
                            ELSE HTTP(200, "")))
           /\ documents' =
                IF ~connected THEN documents
                ELSE IF op = "create_with_vector" THEN InsertDocument(documents, doc)
                ELSE IF op = "update_with_vector" THEN UpdateDocument(documents, id, upd)
                ELSE documents
           /\ vector_embeddings' =
                IF connected /\ op = "create_for_text"
                THEN InsertEmbedding(vector_embeddings, emb)
                ELSE vector_embeddings
    /\ UNCHANGED <<other_tables, messages, started>>

\* One caller at a time: the outcome of a call depends on the tables and on
\* the connection only.
ConnReqs == {1}

NextConn ==
    \E r \in ConnReqs :
        \/ \E op \in BaseOps, id \in DocIds, connected \in BOOLEAN :
                CRUDBaseCall(r, op, id, connected)
        \/ \E op \in OwnerOps, id \in DocIds, connected \in BOOLEAN :
                OwnerLookup(r, op, id, connected)
        \/ \E op \in VectorWriteOps, id \in DocIds :
             \E response \in ProviderResponses("b") :
                VectorWrite_Embed(r, op, id, response)
        \/ \E connected \in BOOLEAN : VectorWrite_Execute(r, connected)

SpecConn == InitStore /\ [][NextConn]_vars

----------------------------------------------------------------------------
(* Users: POST / GET / PUT / DELETE /users behind CRUDUser                 *)

UserIds == 1..MaxUsers
Emails == {"x@e", "y@e"}
UserCreates == [email : Emails, nombre : {"n"}]
UserUpdates == [email : Emails \cup {Unset}, nombre : {"m"}]

\* CRUDUser.get_by_email: select("*").eq("email", email), first row or None
get_by_email(table, email) ==
    LET ids == {u \in DOMAIN table : table[u].email = email}
    IN  IF ids # {}
        THEN <<table[CHOOSE u \in ids : \A v \in ids : u <= v]>>
        ELSE <<>>

\* `email ... Field(unique=True)`: another row holds the email
EmailTaken(table, email, id) ==
    \E u \in DOMAIN table : u # id /\ table[u].email = email

NewUserId(table) == CHOOSE id \in UserIds \ DOMAIN table :
                        \A other \in UserIds \ DOMAIN table : id <= other

\* table("usuarios").insert(obj_in_data).execute(): the table afterwards
InsertUser(table, obj_in) ==
    IF EmailTaken(table, obj_in.email, 0) THEN table
    ELSE LET id == NewUserId(table)
         IN  [u \in DOMAIN table \cup {id} |->
                IF u = id
                THEN [id |-> id, email |-> obj_in.email, nombre |-> obj_in.nombre]
                ELSE table[u]]

\* table("usuarios").update(update_data).eq("id", id).execute()
UpdateUser(table, id, update_data) ==
    IF "email" \in DOMAIN update_data /\ EmailTaken(table, update_data["email"], id)
    THEN table
    ELSE UpdateDocument(table, id, update_data)

(* POST /users/ : create_user *)

CreateUser_GetByEmail(r, user_in) ==
    /\ Free(r)
    /\ started' = started + 1
    /\ LET user == get_by_email(usuarios, user_in.email)
           rq == [IdleReq EXCEPT !.op = "create_user", !.obj_in = user_in,
                    !.db_obj = user,
                    !.log = <<SelectEvent("usuarios", "email", user_in.email)>>]
       IN  Set(r, IF AlreadyExists(user)
                  THEN Finish(rq, HTTP(400,
                    "The user with this email already exists in the system."))
                  ELSE [rq EXCEPT !.pc = "create"])
    /\ UNCHANGED <<documents, messages, vector_embeddings, other_tables>>

\* CRUDBase.create; the store refuses a second row with the same email
CreateUser_Create(r) ==
    /\ req[r].op = "create_user" /\ req[r].pc = "create"
    /\ DOMAIN usuarios # UserIds
    /\ LET obj_in == req[r].obj_in
           logged == [req[r] EXCEPT !.log = Append(@, InsertEvent("usuarios", obj_in))]
       IN  /\ usuarios' = InsertUser(usuarios, obj_in)
           /\ Set(r, IF EmailTaken(usuarios, obj_in.email, 0)
                     THEN Finish(logged, HTTP(500, "APIError: duplicate key"))
                     ELSE Finish([logged EXCEPT !.id = NewUserId(usuarios)],
                                 HTTP(200, "")))
    /\ UNCHANGED <<documents, messages, vector_embeddings, started,
                   conversations, permissions>>

(* GET /users/{id} : read_user_by_id *)

ReadUser(r, id) ==
    /\ Free(r)
    /\ started' = started + 1
    /\ LET user == Get(usuarios, id)
           rq == [IdleReq EXCEPT !.op = "read_user", !.id = id, !.db_obj = user,
                                 !.log = <<SelectEvent("usuarios", "id", id)>>]
       IN  Set(r, IF NotFound(user)
                  THEN Finish(rq, HTTP(404, "User not found"))
                  ELSE Finish(rq, HTTP(200, "")))
    /\ UNCHANGED <<documents, messages, vector_embeddings, other_tables>>

(* PUT /users/{id} : update_user *)

UpdateUser_Get(r, id, user_in) ==
    /\ Free(r)
    /\ started' = started + 1
    /\ LET user == Get(usuarios, id)
           rq == [IdleReq EXCEPT !.op = "update_user", !.id = id,
                                 !.obj_in = user_in, !.db_obj = user,
                                 !.log = <<SelectEvent("usuarios", "id", id)>>]
       IN  Set(r, IF NotFound(user)
                  THEN Finish(rq, HTTP(404, "User not found"))
                  ELSE [rq EXCEPT !.pc = "update"])
    /\ UNCHANGED <<documents, messages, vector_embeddings, other_tables>>

\* CRUDBase.update: response.data[0] of the updated rows
UpdateUser_Update(r) ==
    /\ req[r].op = "update_user" /\ req[r].pc = "update"
    /\ LET id == req[r].id
           update_data == model_dump_exclude_unset(req[r].obj_in)
           logged == [req[r] EXCEPT
                        !.log = Append(@, UpdateEvent("usuarios", id, update_data))]
       IN  /\ usuarios' = UpdateUser(usuarios, id, update_data)
           /\ Set(r, IF id \notin DOMAIN usuarios
                     THEN Finish(logged, HTTP(500, "IndexError"))
                     ELSE IF "email" \in DOMAIN update_data
                             /\ EmailTaken(usuarios, update_data["email"], id)
                     THEN Finish(logged, HTTP(500, "APIError: duplicate key"))
                     ELSE Finish(logged, HTTP(200, "")))
    /\ UNCHANGED <<documents, messages, vector_embeddings, started,
                   conversations, permissions>>

(* DELETE /users/{id} : delete_user *)

DeleteUser_Get(r, id) ==
    /\ Free(r)
    /\ started' = started + 1
    /\ LET user == Get(usuarios, id)
           rq == [IdleReq EXCEPT !.op = "delete_user", !.id = id, !.db_obj = user,
                                 !.log = <<SelectEvent("usuarios", "id", id)>>]
       IN  Set(r, IF NotFound(user)
                  THEN Finish(rq, HTTP(404, "User not found"))
                  ELSE [rq EXCEPT !.pc = "remove"])
    /\ UNCHANGED <<documents, messages, vector_embeddings, other_tables>>

DeleteUser_Remove(r) ==
    /\ req[r].op = "delete_user" /\ req[r].pc = "remove"
    /\ LET id == req[r].id
           out == remove(usuarios, id)
           logged == [req[r] EXCEPT
                        !.log = Append(@, DeleteEvent("usuarios", id, out.value))]
       IN  /\ usuarios' = DeleteDocument(usuarios, id)
           /\ Set(r, IF Len(out.value) > 0
                     THEN Finish(logged, HTTP(200, ""))
                     ELSE Finish(logged, HTTP(500, "ResponseValidationError")))
    /\ UNCHANGED <<documents, messages, vector_embeddings, started,
                   conversations, permissions>>

NextUsers ==
    \E r \in Reqs :
        \/ \E user_in \in UserCreates : CreateUser_GetByEmail(r, user_in)
        \/ CreateUser_Create(r)
        \/ \E id \in UserIds : ReadUser(r, id)
        \/ \E id \in UserIds, user_in \in UserUpdates : UpdateUser_Get(r, id, user_in)
        \/ UpdateUser_Update(r)
        \/ \E id \in UserIds : DeleteUser_Get(r, id)
        \/ DeleteUser_Remove(r)

SpecUsers == Init /\ [][NextUsers]_vars

----------------------------------------------------------------------------
(* Conversations: the status operations of CRUDConversation and            *)
(* POST /conversations/{id}/messages                                       *)

\* the conversations that exist; the id after them has no row
ConvIds == 1..MaxConvs
AnyConvIds == 1..(MaxConvs + 1)

StatusOps == {"finish", "pause", "resume", "cancel"}

\* the status each operation writes
TargetStatus(op) ==
    IF op = "finish" THEN "Finished"
    ELSE IF op = "pause" THEN "Paused"
    ELSE IF op = "resume" THEN "Active"
    ELSE "Cancelled"

\* resume writes whatever the status read was
Proceeds_unguarded(op, conversation) == Len(conversation) > 0

\* `if conversation:` and, in resume_conversation,
\* `if conversation and conversation.status == ConversationStatus.PAUSED:`
Proceeds(op, conversation) ==
    /\ Len(conversation) > 0
    /\ op = "resume" => conversation[1].status = "Paused"

\* create_message: `conversation.status in [FINISHED, CANCELLED]`
Closed(status) == status \in {"Finished", "Cancelled"}

(* POST /conversations/{id}/finish | pause | resume | cancel *)

\* self.get(client, id=conversation_id) and the test on its result; the
\* endpoint answers 404 to a None return
ConversationStatus_Get(r, op, id) ==
    /\ Free(r)
    /\ started' = started + 1
    /\ op \in StatusOps
    /\ LET conversation == Get(conversations, id)
           rq == [IdleReq EXCEPT !.op = op, !.id = id, !.db_obj = conversation,
                                 !.log = <<SelectEvent("conversations", "id", id)>>]
       IN  Set(r, IF Proceeds(op, conversation)
                  THEN [rq EXCEPT !.pc = "update"]
                  ELSE Finish(rq, HTTP(404,
                        IF op = "resume"
                        THEN "Conversation not found or not paused"
                        ELSE "Conversation not found")))
    /\ UNCHANGED <<documents, messages, vector_embeddings, other_tables>>

\* self.update(client, db_obj=conversation, obj_in=update_data)
\* (end_date is carried like status and is left out)
ConversationStatus_Update(r) ==
    /\ req[r].op \in StatusOps /\ req[r].pc = "update"
    /\ LET id == req[r].id
           update_data == [status |-> TargetStatus(req[r].op)]
           logged == [req[r] EXCEPT
                        !.log = Append(@, UpdateEvent("conversations", id, update_data))]
       IN  /\ conversations' = UpdateDocument(conversations, id, update_data)
           /\ Set(r, IF id \in DOMAIN conversations
                     THEN Finish(logged, HTTP(200, ""))
                     ELSE Finish(logged, HTTP(500, "IndexError")))
    /\ UNCHANGED <<documents, messages, vector_embeddings, started,
                   usuarios, permissions>>

(* POST /conversations/{id}/messages : create_message *)

CreateMessage_Get(r, id) ==
    /\ Free(r)
    /\ started' = started + 1
    /\ LET conversation == Get(conversations, id)
           rq == [IdleReq EXCEPT !.op = "create_message", !.id = id,
                                 !.db_obj = conversation,
                                 !.log = <<SelectEvent("conversations", "id", id)>>]
       IN  Set(r, IF NotFound(conversation)
                  THEN Finish(rq, HTTP(404, "Conversation not found"))
                  ELSE IF Closed(conversation[1].status)
                  THEN Finish(rq, HTTP(400,
                        "Cannot add messages to a conversation with status: "
                            \o conversation[1].status))
                  ELSE [rq EXCEPT !.pc = "create"])
    /\ UNCHANGED <<documents, messages, vector_embeddings, other_tables>>

\* message_crud.create(obj_in=MessageCreate(conversation_id=..., content=...))
CreateMessage_Create(r) ==
    /\ req[r].op = "create_message" /\ req[r].pc = "create"
    /\ Len(messages) < MaxMessages
    /\ LET message_in == [conversation_id |-> req[r].id, content |-> "a"]
           row == [id |-> Len(messages) + 1, content |-> "a",
                   conversation_id |-> req[r].id]
       IN  /\ messages' = Append(messages, row)
           /\ Set(r, Finish([req[r] EXCEPT
                        !.log = Append(@, InsertEvent("messages", message_in))],
                            HTTP(200, "")))
    /\ UNCHANGED <<documents, vector_embeddings, started, other_tables>>

\* the conversations table after the conversations were created, with the
\* default status
InitConv ==
    /\ documents = <<>>
    /\ messages = [m \in MsgIds |-> [id |-> m, content |-> "a"]]
    /\ vector_embeddings = <<>>
    /\ req = [r \in Reqs |-> IdleReq]
    /\ started = 0
    /\ usuarios = <<>>
    /\ conversations = [c \in ConvIds |-> [id |-> c, status |-> "Active"]]
    /\ permissions = <<>>

NextConv ==
    \E r \in Reqs :
        \/ \E op \in StatusOps, id \in AnyConvIds : ConversationStatus_Get(r, op, id)
        \/ ConversationStatus_Update(r)
        \/ \E id \in AnyConvIds : CreateMessage_Get(r, id)
        \/ CreateMessage_Create(r)

SpecConv == InitConv /\ [][NextConv]_vars

----------------------------------------------------------------------------
(* Permissions: POST /permissions/increment/{user_id}/{tool_id}            *)

ToolIds == 1..MaxTools
\* the one user of the requests
PermUser == 1

\* get_by_user_and_tool: select eq user_id eq tool_id; the first row or None
get_by_user_and_tool(table, user_id, tool_id) ==
    LET data == {i \in DOMAIN table :
                    table[i].user_id = user_id /\ table[i].tool_id = tool_id}
    IN  IF data # {}
        THEN <<table[CHOOSE i \in data : \A j \in data : i <= j]>>
        ELSE <<>>

\* PermissionCreate(user_id, tool_id, permission_type, interaction_count=0)
PermissionCreate(user_id, tool_id) ==
    [user_id |-> user_id, tool_id |-> tool_id, interaction_count |-> 0]

\* table("permissions").insert(obj_in_data).execute(): the store adds the id
InsertPermission(table, obj_in) ==
    Append(table, [id |-> Len(table) + 1, user_id |-> obj_in.user_id,
                   tool_id |-> obj_in.tool_id,
                   interaction_count |-> obj_in.interaction_count])

\* PermissionUpdate(interaction_count=permission.interaction_count + 1, ...)
PermissionUpdate(permission) ==
    [interaction_count |-> permission.interaction_count + 1]

\* get_or_create: get_by_user_and_tool, return the row when there is one
GetOrCreate_Get(r, tool_id) ==
    /\ Free(r)
    /\ started' = started + 1
    /\ LET permission == get_by_user_and_tool(permissions, PermUser, tool_id)
           rq == [IdleReq EXCEPT !.op = "increment_interaction", !.id = tool_id,
                                 !.db_obj = permission,
                                 !.log = <<SelectEvent("permissions", "tool_id", tool_id)>>]
       IN  Set(r, IF Len(permission) > 0
                  THEN [rq EXCEPT !.pc = "increment_get"]
                  ELSE [rq EXCEPT !.pc = "create"])
    /\ UNCHANGED <<documents, messages, vector_embeddings, other_tables>>

\* get_or_create: self.create(client, obj_in=permission_data)
GetOrCreate_Create(r) ==
    /\ req[r].op = "increment_interaction" /\ req[r].pc = "create"
    /\ LET permission_data == PermissionCreate(PermUser, req[r].id)
       IN  /\ permissions' = InsertPermission(permissions, permission_data)
           /\ Set(r, [req[r] EXCEPT
                        !.pc = "increment_get",
                        !.log = Append(@, InsertEvent("permissions", permission_data))])
    /\ UNCHANGED <<documents, messages, vector_embeddings, started,
                   usuarios, conversations>>

\* increment_interaction_count: get_by_user_and_tool; None when there is no row
\* (None does not validate as PermissionRead)
Increment_Get(r) ==
    /\ req[r].op = "increment_interaction" /\ req[r].pc = "increment_get"
    /\ LET permission == get_by_user_and_tool(permissions, PermUser, req[r].id)
           logged == [req[r] EXCEPT
                        !.db_obj = permission,
                        !.log = Append(@, SelectEvent("permissions", "tool_id", req[r].id))]
       IN  Set(r, IF Len(permission) > 0
                  THEN [logged EXCEPT !.pc = "update"]
                  ELSE Finish(logged, HTTP(500, "ResponseValidationError")))
    /\ UNCHANGED <<documents, messages, vector_embeddings, started, other_tables>>

\* increment_interaction_count: self.update(client, db_obj=permission,
\* obj_in=update_data), an update of the row with the id that was read
Increment_Update(r) ==
    /\ req[r].op = "increment_interaction" /\ req[r].pc = "update"
    /\ LET permission == req[r].db_obj[1]
           update_data == PermissionUpdate(permission)
       IN  /\ permissions' = UpdateDocument(permissions, permission.id, update_data)
           /\ Set(r, Finish([req[r] EXCEPT
                        !.log = Append(@, UpdateEvent("permissions", permission.id,
                                                      update_data))],
                            HTTP(200, "")))
    /\ UNCHANGED <<documents, messages, vector_embeddings, started,
                   usuarios, conversations>>

NextPerm ==
    \E r \in Reqs :
        \/ \E tool_id \in ToolIds : GetOrCreate_Get(r, tool_id)
        \/ GetOrCreate_Create(r)
        \/ Increment_Get(r)
        \/ Increment_Update(r)

SpecPerm == Init /\ [][NextPerm]_vars

----------------------------------------------------------------------------
(* requires_roles: the role check of the API dependencies *)

RoleNames == {"Admin", "Editor", "Viewer"}
RoleLists == SeqsUpTo(RoleNames, MaxRoles)

\* required_roles: List[str] = None
RequiredRoles == {PyNone} \cup {PyList(l) : l \in RoleLists}

\* `not required_roles`: None and the empty list are falsy
PyNot(v) == v.type = "none" \/ Len(v.value) = 0

\* `x in roles`
PyIn(x, list) == \E i \in DOMAIN list : list[i] = x

\* ', '.join(required_roles)
RECURSIVE JoinRoles(_)
JoinRoles(list) ==
    IF Len(list) = 0 THEN ""
    ELSE IF Len(list) = 1 THEN list[1]
    ELSE list[1] \o ", " \o JoinRoles(Tail(list))

Forbidden(required_roles) ==
    HTTP(403, "Insufficient permissions. Required roles: "
                \o JoinRoles(required_roles.value))

\* role_checker without `if "Admin" in roles: return user`
role_checker_without_admin(required_roles, user, roles) ==
    IF PyNot(required_roles) THEN Return(<<user>>)
    ELSE IF ~(\E i \in DOMAIN required_roles.value :
                PyIn(required_roles.value[i], roles))
    THEN Raise("HTTPException")
    ELSE Return(<<user>>)

\* role_checker(user_with_roles) of requires_roles(required_roles)
role_checker(required_roles, user, roles) ==
    IF PyNot(required_roles) THEN Return(<<user>>)
    ELSE IF PyIn("Admin", roles) THEN Return(<<user>>)
    ELSE IF ~(\E i \in DOMAIN required_roles.value :
                PyIn(required_roles.value[i], roles))
    THEN Raise("HTTPException")
    ELSE Return(<<user>>)

\* a request to an endpoint that depends on requires_roles(required_roles),
\* made by an authenticated user who holds `roles`, before the checker runs
RoleCheckerCall(required_roles, user, roles) ==
    [IdleReq EXCEPT !.op = "role_checker", !.pc = "call", !.id = user,
                    !.obj_in = [required_roles |-> required_roles],
                    !.texts = roles]

\* the checker runs; FastAPI answers its HTTPException
RoleChecker(r) ==
    /\ req[r].op = "role_checker" /\ req[r].pc = "call"
    /\ LET required_roles == req[r].obj_in.required_roles
           out == role_checker(required_roles, req[r].id, req[r].texts)
       IN  Set(r, Finish([req[r] EXCEPT !.out = out],
                         IF out.raised THEN Forbidden(required_roles)
                         ELSE HTTP(200, "")))
    /\ UNCHANGED <<documents, messages, vector_embeddings, started, other_tables>>

InitRoles ==
    /\ documents = <<>>
    /\ messages = [m \in MsgIds |-> [id |-> m, content |-> "a"]]
    /\ vector_embeddings = <<>>
    /\ started = 1
    /\ usuarios = <<>>
    /\ conversations = <<>>
    /\ permissions = <<>>
    /\ \E required_roles \in RequiredRoles, user \in UserIds, roles \in RoleLists :
        req = [r \in Reqs |->
                IF r = 1 THEN RoleCheckerCall(required_roles, user, roles)
                ELSE IdleReq]

NextRoles == \E r \in Reqs : RoleChecker(r)

SpecRoles == InitRoles /\ [][NextRoles]_vars

----------------------------------------------------------------------------
(* Properties of the embedding lifecycle *)

\* request r took this step
Stepped(r) == req'[r] # req[r]

Quiescent == \A r \in Reqs : req[r].pc \in {"idle", "done"}

RowsFor(column, id) ==
    {i \in DOMAIN vector_embeddings : vector_embeddings[i][column] = id}

OwnerColumn(rq) ==
    IF rq.op = "create_for_message" THEN "message_id" ELSE "document_id"

\* C1: in every reachable state, concurrent requests included, the
\* vector_embeddings table holds at most one row per message id and at most
\* one row per document id.
C1_AtMostOneEmbeddingPerOwner ==
    /\ \A m \in MsgIds : Cardinality(RowsFor("message_id", m)) <= 1
    /\ \A d \in DocIds : Cardinality(RowsFor("document_id", d)) <= 1

\* C2: when the duplicate check of create_for_message / create_for_document
\* runs for an owner that has an embedding row, the request ends with 400,
\* its log holds no provider call and no store write, and the tables are
\* left as they were.
C2_DuplicateRejected ==
    [][\A r \in Reqs :
        ( /\ Stepped(r)
          /\ req[r].op \in {"create_for_message", "create_for_document"}
          /\ req[r].pc = "check_existing"
          /\ RowsFor(OwnerColumn(req[r]), req[r].id) # {} )
        => /\ req'[r].pc = "done"
           /\ req'[r].result.status = 400
           /\ Count(req'[r].log, "embed") = 0
           /\ Writes(req'[r].log) = {}
           /\ vector_embeddings' = vector_embeddings
           /\ documents' = documents]_vars

C2_Witness ==
    \E r \in Reqs :
        /\ req[r].op \in {"create_for_message", "create_for_document"}
        /\ req[r].result.status = 400
        /\ RowsFor(OwnerColumn(req[r]), req[r].id) # {}

\* C3: an update whose payload does not set text_content makes no provider
\* call; once update_with_vector has run it has issued exactly one store
\* update, whose payload has no vector field; no stored vector changes.
C3_NoReembedOnUnrelatedUpdate ==
    [][\A r \in Reqs :
        ( /\ Stepped(r)
          /\ req'[r].op = "update_document"
          /\ req'[r].obj_in.text_content = Unset )
        => /\ Count(req'[r].log, "embed") = 0
           /\ Count(req'[r].log, "insert") = 0
           /\ (req'[r].pc = "done" /\ req'[r].result.status # 404)
                => /\ Count(req'[r].log, "update") = 1
                   /\ \A i \in Events(req'[r].log, "update") :
                        "vector" \notin DOMAIN req'[r].log[i].payload
           /\ \A d \in DOMAIN documents :
                /\ d \in DOMAIN documents'
                /\ documents'[d].vector = documents[d].vector]_vars

C3_Witness ==
    \E r \in Reqs :
        /\ req[r].op = "update_document" /\ req[r].pc = "done"
        /\ req[r].result.status = 200
        /\ req[r].obj_in.text_content = Unset
        /\ req[r].obj_in.name # Unset
        /\ req[r].obj_in.name # req[r].db_obj[1].name
        /\ documents[req[r].id].name = req[r].obj_in.name

\* the update payload of rq sets text_content to a value other than the
\* text of the document the handler read
SetsNewText(rq) ==
    /\ rq.op = "update_document"
    /\ rq.obj_in.text_content # Unset
    /\ Len(rq.db_obj) > 0
    /\ rq.obj_in.text_content # rq.db_obj[1].text_content

\* C4: an update that sets text_content to a new value calls the provider
\* exactly once, with the new text, and then issues exactly one store update,
\* whose payload carries the new text and the vector that call returned; the
\* row's vector is overwritten with it.
C4_ReembedOnTextChange ==
    [][\A r \in Reqs :
        (Stepped(r) /\ SetsNewText(req'[r]))
        => LET rq == req'[r]
               new == rq.obj_in.text_content
           IN  /\ \A i \in Events(rq.log, "embed") : rq.log[i].text = new
               /\ rq.pc = "embed" => Count(rq.log, "embed") = 0
               /\ rq.pc \in {"update", "done"} => Count(rq.log, "embed") = 1
               /\ rq.pc = "update" => Count(rq.log, "update") = 0
               /\ (rq.pc = "done" /\ ~Failed(rq.log[2]))
                    => /\ Count(rq.log, "update") = 1
                       /\ rq.log[3] = UpdateEvent("documents", rq.id,
                            [f \in {k \in DOMAIN rq.obj_in : rq.obj_in[k] # Unset}
                                    \cup {"vector"} |->
                                IF f = "vector"
                                THEN PyList(rq.log[2].response.embedding)
                                ELSE rq.obj_in[f]])
                       /\ documents'[rq.id].text_content = new
                       /\ documents'[rq.id].vector =
                            PyList(rq.log[2].response.embedding)]_vars

C4_Witness ==
    \E r \in Reqs :
        /\ SetsNewText(req[r])
        /\ req[r].pc = "done" /\ req[r].result.status = 200
        /\ documents[req[r].id].vector # req[r].db_obj[1].vector
        /\ documents[req[r].id].vector = PyList(ProviderVector(req[r].obj_in.text_content))

\* C5: an update whose text_content equals the stored text_content of the
\* document does not call the provider.
C5_NoEmbedWhenTextUnchanged ==
    \A r \in Reqs :
        ( /\ req[r].op = "update_document"
          /\ Len(req[r].db_obj) > 0
          /\ req[r].obj_in.text_content = req[r].db_obj[1].text_content
          /\ documents[req[r].id].text_content = req[r].obj_in.text_content )
        => Count(req[r].log, "embed") = 0

\* C6: when no request is in flight, every stored vector owned by a
\* document (the row's vector column and every vector_embeddings row of the
\* document) is the embedding of the document's current text_content.
C6_VectorsMatchCurrentText ==
    Quiescent =>
        \A d \in DOMAIN documents :
            LET current == PyList(ProviderVector(documents[d].text_content))
            IN  /\ documents[d].vector = current
                /\ \A i \in RowsFor("document_id", d) :
                        vector_embeddings[i].vector = current

\* C7: when the provider call of create_with_vector, create_for_text or a
\* text-setting update_with_vector fails, the request ends with the error,
\* its log holds no store write, and the tables are left as they were.
C7_FailedEmbedWritesNothing ==
    [][\A r \in Reqs :
        ( /\ Stepped(r)
          /\ \E i \in Events(req'[r].log, "embed") : Failed(req'[r].log[i]) )
        => /\ req'[r].pc = "done"
           /\ req'[r].result.status = 500
           /\ req'[r].result.detail \in
                {"Error getting embedding: server error", "TransportError"}
           /\ Writes(req'[r].log) = {}
           /\ documents' = documents
           /\ vector_embeddings' = vector_embeddings]_vars

C7_Witness ==
    \E r \in Reqs :
        /\ req[r].op = "update_document" /\ req[r].pc = "done"
        /\ req[r].result.status = 500
        /\ \E i \in Events(req[r].log, "embed") : Failed(req[r].log[i])
        /\ documents[req[r].id] = req[r].db_obj[1]

\* C8: a successful create_with_vector has made exactly one provider call,
\* on the document's text_content, and then exactly one store insert whose
\* payload carries the document fields and the returned vector; no store
\* write of the request precedes its provider call.
C8_EmbedThenInsert ==
    \A r \in Reqs :
        req[r].op = "create_document" =>
            /\ \A i \in Writes(req[r].log) :
                    \E j \in Events(req[r].log, "embed") : j < i
            /\ (req[r].pc = "done" /\ req[r].result.status = 200) =>
                /\ Len(req[r].log) = 2
                /\ req[r].log[1].kind = "embed"
                /\ req[r].log[1].text = req[r].obj_in.text_content
                /\ ~Failed(req[r].log[1])
                /\ req[r].log[2].kind = "insert"
                /\ req[r].log[2].table = "documents"
                /\ DOMAIN req[r].log[2].payload = DOMAIN req[r].obj_in \cup {"vector"}
                /\ \A f \in DOMAIN req[r].obj_in :
                        req[r].log[2].payload[f] = req[r].obj_in[f]
                /\ req[r].log[2].payload["vector"].value =
                        req[r].log[1].response.embedding

C8_Witness ==
    \E r \in Reqs :
        /\ req[r].op = "create_document" /\ req[r].pc = "done"
        /\ req[r].result.status = 200
        /\ req[r].id \in DOMAIN documents

\* C9: the vector field of the payload that create_with_vector inserts, and
\* that update_with_vector writes when text_content is set, is the
\* json.dumps text of the vector the provider returned.
C9_VectorPayloadIsJson ==
    \A r \in Reqs :
        req[r].op \in {"create_document", "update_document"} =>
            \A i \in Writes(req[r].log) :
                "vector" \in DOMAIN req[r].log[i].payload =>
                    req[r].log[i].payload["vector"] = JsonDumps(req[r].vector)

----------------------------------------------------------------------------
(* Properties of the similarity search *)

IsSearch(rq) == rq.op \in {"search_documents", "search_vector_embeddings"}

\* C10: when the similarity rpc raises, search_by_vector and search_similar
\* return an empty list instead of raising, and the provider was called
\* exactly once, with the query text, before the rpc.
C10_DegradeToEmpty ==
    \A r \in Reqs :
        ( /\ IsSearch(req[r])
          /\ \E i \in Events(req[r].log, "rpc") : req[r].log[i].response.raised )
        => /\ req[r].pc = "done"
           /\ req[r].result.status = 200
           /\ req[r].results = <<>>
           /\ Len(req[r].log) = 2
           /\ req[r].log[1].kind = "embed"
           /\ req[r].log[1].text = req[r].text
           /\ ~Failed(req[r].log[1])
           /\ req[r].log[2].kind = "rpc"

C10_Witness ==
    \E r \in Reqs :
        /\ IsSearch(req[r]) /\ req[r].pc = "done"
        /\ req[r].log[Len(req[r].log)].kind = "rpc"
        /\ req[r].log[Len(req[r].log)].response.raised
        /\ req[r].result.status = 200

\* C11: when the provider call of search_by_vector / search_similar fails,
\* the error reaches the caller (the request ends with it, not with an empty
\* list of matches) and the handler issues no similarity rpc.
C11_SearchEmbedErrorPropagates ==
    \A r \in Reqs :
        ( /\ IsSearch(req[r])
          /\ \E i \in Events(req[r].log, "embed") : Failed(req[r].log[i]) )
        => /\ req[r].pc = "done"
           /\ req[r].result.status = 500
           /\ req[r].result.detail =
                (IF req[r].log[1].response.kind = "timeout"
                 THEN "TransportError"
                 ELSE "Error getting embedding: " \o req[r].log[1].response.text)
           /\ Count(req[r].log, "rpc") = 0
           /\ Len(req[r].log) = 1

C11_Witness ==
    \E r \in Reqs :
        /\ IsSearch(req[r]) /\ req[r].pc = "done"
        /\ Failed(req[r].log[1])
        /\ req[r].result.status = 500

\* a search whose rpc answered with rows
RpcAnswered(rq) ==
    /\ IsSearch(rq) /\ rq.pc = "done"
    /\ Len(rq.log) = 2 /\ rq.log[2].kind = "rpc"
    /\ ~rq.log[2].response.raised
    /\ \A i \in DOMAIN rq.log[2].response.data :
            IsObject(rq.log[2].response.data[i])

\* the row carries a similarity at or above the threshold
AtOrAboveThreshold(row) ==
    "similarity" \in DOMAIN row /\ row["similarity"] >= MatchThreshold

\* C12: for any rows the backend answers with, the matches returned are
\* exactly the rows whose similarity is at least 0.5, in their order.
C12_OnlyRowsAtOrAboveThreshold ==
    \A r \in Reqs :
        RpcAnswered(req[r]) =>
            LET kept == SelectSeq(req[r].log[2].response.data, AtOrAboveThreshold)
            IN  /\ Len(req[r].results) = Len(kept)
                /\ \A i \in DOMAIN kept :
                        /\ req[r].results[i].score = kept[i]["similarity"]
                        /\ req[r].results[i].entity.id = kept[i].id

\* C13: for every backend response, the matches returned are in order of
\* non-increasing score.
C13_OrderedByScore ==
    \A r \in Reqs :
        RpcAnswered(req[r]) =>
            \A i, j \in DOMAIN req[r].results :
                i < j => req[r].results[i].score >= req[r].results[j].score

\* C14: for every backend response and every limit, the number of matches
\* returned is at most the limit.
C14_AtMostLimit ==
    \A r \in Reqs :
        RpcAnswered(req[r]) => Len(req[r].results) <= req[r].limit

\* C15: when the rpc succeeds the search returns one (entity, score) pair per
\* backend row, in row order, the entity holding the row's fields without
\* similarity and the score being the row's similarity; the rpc was called
\* exactly once, with match_threshold 0.5 and match_count = limit.
C15_OnePairPerRow ==
    \A r \in Reqs :
        RpcAnswered(req[r]) =>
            LET call == req[r].log[2]
                data == call.response.data
            IN  /\ req[r].result.status = 200
                /\ Len(req[r].results) = Len(data)
                /\ \A i \in DOMAIN data :
                    /\ req[r].results[i].entity =
                         [k \in DOMAIN data[i] \ {"similarity"} |-> data[i][k]]
                    /\ "similarity" \in DOMAIN data[i] =>
                         req[r].results[i].score = data[i]["similarity"]
                /\ Count(req[r].log, "rpc") = 1
                /\ call.name = (IF req[r].op = "search_documents"
                                THEN "match_documents"
                                ELSE "match_vector_embeddings")
                /\ call.params.match_threshold = 50
                /\ call.params.match_count = req[r].limit

C15_Witness ==
    \E r \in Reqs :
        /\ RpcAnswered(req[r])
        /\ Len(req[r].results) = 2
        /\ req[r].results[1].score = 85
        /\ req[r].results[2].score = 95
        /\ req[r].results[1].entity = [id |-> 2]

----------------------------------------------------------------------------
(* Properties of EmbeddingService *)

\* C16: get_embeddings([t1..tn]) returns n vectors, the i-th being what the
\* provider returned for ti; it makes exactly one provider request per text,
\* in input order.
C16_BatchInInputOrder ==
    \A r \in Reqs :
        ( /\ req[r].op = "get_embeddings"
          /\ req[r].pc = "done" /\ req[r].result.status = 200 )
        => /\ Len(req[r].results) = Len(req[r].texts)
           /\ Len(req[r].log) = Len(req[r].texts)
           /\ \A i \in DOMAIN req[r].texts :
                /\ req[r].log[i].kind = "embed"
                /\ req[r].log[i].text = req[r].texts[i]
                /\ ~Failed(req[r].log[i])
                /\ req[r].results[i] = req[r].log[i].response.embedding

C16_Witness ==
    \E r \in Reqs :
        /\ req[r].op = "get_embeddings" /\ req[r].pc = "done"
        /\ req[r].texts = <<"b", "a">>
        /\ req[r].results = <<ProviderVector("b"), ProviderVector("a")>>

\* C17: every get_embedding invocation is one outbound request; a response
\* whose status is not 200 ends the call with an error that carries the
\* response body: no vector is returned and no further request follows.
C17_OneRequestNoRetry ==
    \A r \in Reqs :
        req[r].op = "get_embeddings" =>
            /\ Count(req[r].log, "embed") = Len(req[r].log)
            /\ Len(req[r].log) \in
                    {Len(req[r].embeddings), Len(req[r].embeddings) + 1}
            /\ \A i \in DOMAIN req[r].log :
                ( /\ req[r].log[i].response.kind = "response"
                  /\ req[r].log[i].response.status_code # 200 )
                => /\ i = Len(req[r].log)
                   /\ Len(req[r].embeddings) = i - 1
                   /\ req[r].pc = "done"
                   /\ req[r].result.status = 500
                   /\ req[r].result.detail =
                        "Error getting embedding: " \o req[r].log[i].response.text
                   /\ req[r].results = <<>>

C17_Witness ==
    \E r \in Reqs :
        /\ req[r].op = "get_embeddings" /\ req[r].pc = "done"
        /\ Len(req[r].log) = 2
        /\ req[r].log[2].response.status_code = 429
        /\ req[r].result.detail = "Error getting embedding: rate limit"

\* C18: construction takes the api_key argument if it is not empty, else the
\* OPENAI_API_KEY environment variable if it is set, else the settings
\* value; it fails, before any provider request, when the key so found is
\* empty, which is the case when all three are empty.
C18_CredentialResolution ==
    \A r \in Reqs :
        req[r].op = "EmbeddingService" =>
            LET in == req[r].obj_in
                expected ==
                    IF in.api_key # "" THEN in.api_key
                    ELSE IF in.environ # NotInEnviron THEN in.environ
                    ELSE in.settings_key
                all_empty ==
                    /\ in.api_key = ""
                    /\ in.environ \in {NotInEnviron, ""}
                    /\ in.settings_key = ""
            IN  /\ req[r].pc = "done"
                /\ req[r].log = <<>>
                /\ expected # "" =>
                        req[r].result.status = 200 /\ req[r].api_key = expected
                /\ expected = "" => req[r].result.status = 500
                /\ all_empty => req[r].result.status = 500

C18_Witness ==
    \E r \in Reqs :
        /\ req[r].op = "EmbeddingService"
        /\ req[r].obj_in = [api_key |-> "", environ |-> "env_key",
                            settings_key |-> "settings_key"]
        /\ req[r].api_key = "env_key"

----------------------------------------------------------------------------
(* Properties of the stored vectors and of store writes *)

\* C19: every vector in the store (the vector column of a document, the
\* vector of a vector_embeddings row) has the provider's dimensionality.
C19_StoredVectorsHaveDim ==
    /\ \A d \in DOMAIN documents : Len(documents[d].vector.value) = Dim
    /\ \A i \in DOMAIN vector_embeddings :
            Len(vector_embeddings[i].vector.value) = Dim

\* C20: a store update or remove whose id matches no row ends the request
\* with a NotFound error, also when the row was deleted after the
\* handler's existence check.
C20_MissingRowIsNotFound ==
    [][\A r \in Reqs :
        ( /\ Stepped(r)
          /\ req[r].op \in {"update_document", "delete_document"}
          /\ req[r].pc \in {"update", "remove"}
          /\ req[r].id \notin DOMAIN documents )
        => /\ req'[r].pc = "done"
           /\ req'[r].result.status = 404]_vars

----------------------------------------------------------------------------
(* Properties of store operations without a connection *)

StoreOps == BaseOps \cup OwnerOps \cup VectorWriteOps

\* the store operation of rq could not reach the database
Disconnected(rq) ==
    /\ rq.op \in StoreOps
    /\ \E i \in Events(rq.log, "execute") : ~rq.log[i].connected

\* C21: a store operation that cannot reach the database ends with a
\* connection error: it raises, the error names the connection failure (it
\* is neither a not-found nor an index error), and no value (None, an empty
\* list, a row) is returned.
C21_ConnectivityFailureRaises ==
    \A r \in Reqs :
        Disconnected(req[r]) =>
            /\ req[r].pc = "done"
            /\ req[r].out.raised
            /\ req[r].out.value = <<>>
            /\ req[r].out.error =
                 (IF req[r].op \in BaseOps
                  THEN "ValueError: Database connection error: ConnectError"
                  ELSE "ConnectError")
            /\ req[r].result.status = 500

C21_Witness ==
    \E r \in Reqs :
        /\ Disconnected(req[r])
        /\ req[r].op = "get"
        /\ req[r].id \in DOMAIN documents
        /\ req[r].out.raised

----------------------------------------------------------------------------
(* Properties of create_for_message *)

\* the steps of create_for_message, in the order of the handler
CreateForMessageSteps ==
    <<[kind |-> "select", table |-> "messages"],
      [kind |-> "select", table |-> "vector_embeddings"],
      [kind |-> "embed", table |-> ""],
      [kind |-> "insert", table |-> "vector_embeddings"]>>

\* C22: create_for_message on a message id with no row ends with 404 after
\* the existence check alone: no duplicate check, no provider call, no
\* write.  The handler's steps always come in the order existence check,
\* duplicate check, provider call, insert.
C22_ExistenceCheckFirst ==
    \A r \in Reqs :
        req[r].op = "create_for_message" =>
            /\ Len(req[r].log) \in 1..4
            /\ \A i \in DOMAIN req[r].log :
                /\ req[r].log[i].kind = CreateForMessageSteps[i].kind
                /\ req[r].log[i].kind # "embed" =>
                        req[r].log[i].table = CreateForMessageSteps[i].table
            /\ req[r].id \notin DOMAIN messages =>
                /\ req[r].pc = "done"
                /\ req[r].result = HTTP(404, "Message not found")
                /\ Len(req[r].log) = 1
                /\ \A i \in DOMAIN vector_embeddings :
                        vector_embeddings[i].message_id # req[r].id

C22_Witness ==
    \E r \in Reqs :
        /\ req[r].op = "create_for_message" /\ req[r].pc = "done"
        /\ req[r].id \notin DOMAIN messages
        /\ req[r].result.status = 404

----------------------------------------------------------------------------
(* Properties of the user endpoints *)

\* C23: a read, update or delete of a user id that has no row ends with
\* 404 after the lookup alone: the request issues no update and no delete,
\* and the usuarios table is left as it was.
C23_MissingUserIs404 ==
    [][\A r \in Reqs :
        ( /\ Stepped(r)
          /\ req'[r].op \in {"read_user", "update_user", "delete_user"}
          /\ Len(req'[r].log) = 1
          /\ req'[r].id \notin DOMAIN usuarios )
        => /\ req'[r].pc = "done"
           /\ req'[r].result.status = 404
           /\ Events(req'[r].log, "update") \cup Events(req'[r].log, "delete") = {}
           /\ usuarios' = usuarios]_vars

C23_Witness ==
    \E r \in Reqs :
        /\ req[r].op = "delete_user" /\ req[r].pc = "done"
        /\ req[r].result.status = 404
        /\ Len(req[r].log) = 1
        /\ usuarios # <<>>

\* C24: a create_user whose email check finds a user with that email ends
\* with 400 and issues no insert; in every reachable state no two stored
\* users share an email.
C24_NoDuplicateEmail ==
    /\ \A r \in Reqs :
        ( /\ req[r].op = "create_user"
          /\ Len(req[r].db_obj) > 0 )
        => /\ req[r].pc = "done"
           /\ req[r].result.status = 400
           /\ Count(req[r].log, "insert") = 0
    /\ \A r \in Reqs :
        ( /\ req[r].op = "create_user"
          /\ req[r].result.status = 400 )
        => Len(req[r].db_obj) > 0 /\ req[r].db_obj[1].email = req[r].obj_in.email
    /\ \A u, v \in DOMAIN usuarios :
            usuarios[u].email = usuarios[v].email => u = v

C24_Witness ==
    \E r \in Reqs :
        /\ req[r].op = "create_user" /\ req[r].pc = "done"
        /\ req[r].result.status = 400
        /\ \E u \in DOMAIN usuarios : usuarios[u].email = req[r].obj_in.email

----------------------------------------------------------------------------
(* Properties of conversations *)

\* C25: no message is inserted into a conversation that is Finished or
\* Cancelled at the moment of the insert, whatever requests ran between
\* create_message's status check and its insert.
C25_NoMessageIntoClosedConversation ==
    [][\A r \in Reqs :
        ( /\ Stepped(r)
          /\ req[r].op = "create_message" /\ req[r].pc = "create"
          /\ Len(messages') > Len(messages) )
        => ~Closed(conversations[req[r].id].status)]_vars

\* C26: resume_conversation writes status Active only after reading the
\* conversation with status Paused; when the conversation is absent or read
\* with another status the request makes no store write and ends with 404.
C26_ResumeOnlyFromPaused ==
    \A r \in Reqs :
        req[r].op = "resume" =>
            /\ ( Len(req[r].db_obj) = 0 \/ req[r].db_obj[1].status # "Paused" )
                => /\ req[r].pc = "done"
                   /\ req[r].result =
                        HTTP(404, "Conversation not found or not paused")
                   /\ Len(req[r].log) = 1
                   /\ Writes(req[r].log) = {}
            /\ \A i \in Writes(req[r].log) :
                /\ req[r].db_obj[1].status = "Paused"
                /\ req[r].log[i] =
                     UpdateEvent("conversations", req[r].id, [status |-> "Active"])

\* one resume refused on a conversation that exists and is not Paused, and
\* one resume that wrote
C26_Witness ==
    /\ \E r \in Reqs :
        /\ req[r].op = "resume" /\ req[r].pc = "done"
        /\ req[r].result.status = 404
        /\ req[r].id \in DOMAIN conversations
        /\ req[r].db_obj[1].status # "Paused"
    /\ \E r \in Reqs :
        /\ req[r].op = "resume" /\ req[r].pc = "done"
        /\ req[r].result.status = 200
        /\ Writes(req[r].log) # {}
        /\ conversations[req[r].id].status = "Active"

\* C27: once a conversation is Finished or Cancelled, no finish, pause,
\* resume or cancel makes it Active or Paused.
C27_ClosedIsTerminal ==
    [][\A c \in DOMAIN conversations :
        Closed(conversations[c].status)
            => conversations'[c].status \notin {"Active", "Paused"}]_vars

----------------------------------------------------------------------------
(* Properties of permissions *)

\* the interaction_count a lookup of the pair returns; 0 with no permission
StoredCount(table, tool_id) ==
    LET permission == get_by_user_and_tool(table, PermUser, tool_id)
    IN  IF Len(permission) > 0 THEN permission[1].interaction_count ELSE 0

\* C28: the step that completes an increment_interaction request for a pair
\* raises the pair's stored interaction_count by exactly one, also when other
\* requests for the pair ran since this request read the count.
C28_IncrementAddsOne ==
    [][\A r \in Reqs :
        ( /\ Stepped(r)
          /\ req[r].op = "increment_interaction"
          /\ req'[r].pc = "done" )
        => StoredCount(permissions', req[r].id)
              = StoredCount(permissions, req[r].id) + 1]_vars

----------------------------------------------------------------------------
(* Properties of requires_roles *)

Held(rq) == {rq.texts[i] : i \in DOMAIN rq.texts}

Required(rq) ==
    LET required_roles == rq.obj_in.required_roles
    IN  IF required_roles.type = "none" THEN {}
        ELSE {required_roles.value[i] : i \in DOMAIN required_roles.value}

Admits(rq) ==
    \/ Required(rq) = {}
    \/ "Admin" \in Held(rq)
    \/ Held(rq) \cap Required(rq) # {}

\* C29: the role checker returns the user exactly when no role is required
\* (None or the empty list), or the user holds "Admin", or the user holds one
\* of the required roles; otherwise it fails with 403 and returns no user.
C29_RoleCheckerAdmits ==
    \A r \in Reqs :
        ( req[r].op = "role_checker" /\ req[r].pc = "done" ) =>
            IF Admits(req[r])
            THEN /\ req[r].out = Return(<<req[r].id>>)
                 /\ req[r].result.status = 200
            ELSE /\ req[r].out.raised
                 /\ req[r].out.value = <<>>
                 /\ req[r].result.status = 403

\* a user refused for lack of a required role
C29_Witness ==
    \E r \in Reqs :
        /\ req[r].op = "role_checker"
        /\ req[r].result =
             HTTP(403, "Insufficient permissions. Required roles: Editor, Editor")
        /\ req[r].texts = <<"Viewer">>

----------------------------------------------------------------------------
(* Properties of the search's row conversion *)

\* a search whose rpc answered and one of whose rows failed to convert
ConversionFailed(rq) ==
    /\ IsSearch(rq)
    /\ Len(rq.log) = 2 /\ rq.log[2].kind = "rpc"
    /\ ~rq.log[2].response.raised
    /\ \E i \in DOMAIN rq.log[2].response.data :
            ~IsObject(rq.log[2].response.data[i])

\* C30: when the conversion of any row of a successful rpc response fails,
\* the search returns the empty list, not the rows converted before the
\* failure.
C30_AllOrNothing ==
    \A r \in Reqs :
        ConversionFailed(req[r]) =>
            /\ req[r].pc = "done"
            /\ req[r].result.status = 200
            /\ req[r].results = <<>>

\* the failure comes after a row that converts
C30_Witness ==
    \E r \in Reqs :
        /\ ConversionFailed(req[r])
        /\ req[r].pc = "done"
        /\ Len(req[r].log[2].response.data) = 2
        /\ IsObject(req[r].log[2].response.data[1])
        /\ ~IsObject(req[r].log[2].response.data[2])
        /\ req[r].results = <<>>

====
